---- MODULE Spec2Model ----
(***************************************************************************)
(* Model of update_snapshot.py: fetch closing prices for a catalog of      *)
(* instruments, compute one Quote per instrument, render the rows of the   *)
(* snapshot table and splice them between <tbody> and </tbody> of          *)
(* index.html.                                                             *)
(*                                                                         *)
(* Text is a sequence of atoms.  An atom is one character, or a literal    *)
(* fragment of the markup templates of build_tbody, or a name or title of  *)
(* the catalog.  No marker lies inside such an atom or straddles its       *)
(* border: the template fragments end in '>', '"' or a blank and start     *)
(* with a blank, '<', '"', '%' or a newline, and the names and titles of   *)
(* SECTIONS hold no '<'.  Documents, markers and formatted numbers are     *)
(* character by character.                                                 *)
(*                                                                         *)
(* A float is sign and magnitude, the magnitude in units of 1/Unit with    *)
(* Unit a power of two: every value is a binary fraction, held exactly by  *)
(* a Python float, and the inputs are drawn so that each operation of the  *)
(* code is exact on them.  Negative zero is a value of its own.            *)
(***************************************************************************)
EXTENDS Integers, Sequences, FiniteSets, TLC

VARIABLES pc, catalog, doc, data, results, tbody, args, out

vars == <<pc, catalog, doc, data, results, tbody, args, out>>

\* Bounds of the model.
FracBits == 8
MaxRows == 2

Unit == 2^FracBits

-----------------------------------------------------------------------------
\* Floats

Flt(neg, mag) == [neg |-> neg, mag |-> mag]

\* The float of the integer n.
FInt(n) == IF n < 0 THEN Flt(TRUE, (-n) * Unit) ELSE Flt(FALSE, n * Unit)

\* The float of n / 2^k.
FBin(n, k) == IF n < 0 THEN Flt(TRUE, ((-n) * Unit) \div 2^k)
                       ELSE Flt(FALSE, (n * Unit) \div 2^k)

Signed(x) == IF x.neg THEN -x.mag ELSE x.mag

\* last - prev: exact; a zero difference is +0.0 unless it is (-0.0) - (+0.0).
FSub(a, b) ==
    LET r == Signed(a) - Signed(b)
    IN  IF r = 0 THEN Flt(a.neg /\ ~b.neg, 0)
        ELSE IF r < 0 THEN Flt(TRUE, -r) ELSE Flt(FALSE, r)

\* chg / prev for prev # 0: the sign is the exclusive or of the signs, also
\* of a zero quotient.
FDiv(a, b) == Flt(a.neg # b.neg, (a.mag * Unit) \div b.mag)

\* x * 100.
FMul100(x) == Flt(x.neg, x.mag * 100)

\* The quotient chg / prev is a multiple of 1/Unit: FDiv loses nothing.
ExactDiv(a, b) == b.mag = 0 \/ (a.mag * Unit) % b.mag = 0

\* Python's truth value of a float: false for both zeros.
Truthy(x) == x.mag # 0

\* val >= 0 (true of -0.0).
FGe0(x) == ~x.neg \/ x.mag = 0

\* abs(val) >= n.
AbsGe(x, n) == x.mag >= n * Unit

-----------------------------------------------------------------------------
\* Fixed-point formatting: format(val, ".Nf") and format(val, ",.Nf")

DigitChars == <<"0", "1", "2", "3", "4", "5", "6", "7", "8", "9">>

IsDigit(c) == \E i \in 1..10 : DigitChars[i] = c

RECURSIVE Digits(_)
Digits(n) == IF n < 10 THEN <<DigitChars[n + 1]>>
             ELSE Digits(n \div 10) \o <<DigitChars[(n % 10) + 1]>>

RECURSIVE ZeroPad(_, _)
ZeroPad(s, width) == IF Len(s) >= width THEN s ELSE ZeroPad(<<"0">> \o s, width)

\* The thousands separators of the "," format option.
RECURSIVE Grouped(_)
Grouped(s) == IF Len(s) <= 3 THEN s
              ELSE Grouped(SubSeq(s, 1, Len(s) - 3)) \o <<",">>
                   \o SubSeq(s, Len(s) - 2, Len(s))

\* |x| * 10^d rounded to an integer, ties to even (the value is exact).
Rounded(x, d) ==
    LET ip   == x.mag \div Unit
        fr   == (x.mag % Unit) * 10^d
        q    == fr \div Unit
        rem  == fr % Unit
        up   == 2 * rem > Unit \/ (2 * rem = Unit /\ q % 2 = 1)
    IN  ip * 10^d + q + (IF up THEN 1 ELSE 0)

Fixed(x, d, grouping) ==
    LET n    == Rounded(x, d)
        ints == Digits(n \div 10^d)
    IN  (IF x.neg THEN <<"-">> ELSE <<>>)
        \o (IF grouping THEN Grouped(ints) ELSE ints)
        \o <<".">> \o ZeroPad(Digits(n % 10^d), d)

\* fmt_price with the tier boundaries exclusive (> for >=).
fmt_price_exclusive(val) ==
    IF val.mag > 10 * Unit THEN Fixed(val, 2, TRUE)
    ELSE IF val.mag > Unit THEN Fixed(val, 3, FALSE)
    ELSE Fixed(val, 4, FALSE)

fmt_price(val) ==
    IF AbsGe(val, 10) THEN Fixed(val, 2, TRUE)
    ELSE IF AbsGe(val, 1) THEN Fixed(val, 3, FALSE)
    ELSE Fixed(val, 4, FALSE)

fmt_change(val, ref) ==
    LET sign == IF FGe0(val) THEN <<"+">> ELSE <<>>
    IN  IF AbsGe(ref, 10) THEN sign \o Fixed(val, 2, TRUE)
        ELSE IF AbsGe(ref, 1) THEN sign \o Fixed(val, 3, FALSE)
        ELSE sign \o Fixed(val, 4, FALSE)

\* strftime("%d/%m")
fmt_time(dt) == ZeroPad(Digits(dt.day), 2) \o <<"/">> \o ZeroPad(Digits(dt.month), 2)

-----------------------------------------------------------------------------
\* The Quote of fetch_data, from the last two closes.

MakeQuote(last, prev, last_dt) ==
    LET chg     == FSub(last, prev)
        chg_pct == IF Truthy(prev) THEN FMul100(FDiv(chg, prev)) ELSE Flt(FALSE, 0)
    IN  [last |-> last, chg |-> chg, chg_pct |-> chg_pct, time |-> last_dt]

-----------------------------------------------------------------------------
\* Markup of build_tbody

\* The character U+2500 of the section comment line.
BoxDash == "[U+2500]"

Indent == "              "

CommentLine(section_title) ==
    <<Indent, "<!-- ", BoxDash, BoxDash, " ", section_title, " ", BoxDash, BoxDash, " -->">>

HeaderLine(section_title) ==
    <<Indent, "<tr class=\"section-header\">", "<td colspan=\"5\">", section_title,
      "</td></tr>">>

RowLine(name, d) ==
    LET cls == IF FGe0(d.chg) THEN "chg-pos" ELSE "chg-neg"
    IN  <<Indent, "<tr>", "<td>", name, "</td>", "<td>">> \o fmt_price(d.last)
        \o <<"</td>", "<td class=\"", cls, "\">">> \o fmt_change(d.chg, d.last)
        \o <<"</td>", "<td class=\"", cls, "\">">> \o fmt_change(d.chg_pct, FInt(100))
        \o <<"%</td>", "<td>">> \o fmt_time(d.time)
        \o <<"</td>", "</tr>">>

-----------------------------------------------------------------------------
\* SECTIONS: the catalog, a list of sections, each a title and a list of
\* (display name, ticker) instruments.

Instrument(name, ticker) == [name |-> name, ticker |-> ticker]

Section(title, instruments) == [title |-> title, instruments |-> instruments]

UsdJpy == Instrument("USD/JPY", "JPY=X")
Dax == Instrument("DAX", "^GDAXI")

Catalogs ==
    { <<>>,
      <<Section("Currencies &amp; Commodities", <<UsdJpy>>)>>,
      <<Section("Currencies &amp; Commodities", <<UsdJpy, Dax>>),
        Section("Global Market Indices", <<>>)>>,
      <<Section("Currencies &amp; Commodities", <<UsdJpy>>),
        Section("Global Market Indices", <<Dax>>)>>,
      <<Section("Currencies &amp; Commodities", <<Dax>>),
        Section("Global Market Indices", <<Dax>>)>> }

RECURSIVE AllInstruments(_)
AllInstruments(sections) ==
    IF sections = <<>> THEN <<>>
    ELSE Head(sections).instruments \o AllInstruments(Tail(sections))

all_tickers(sections) ==
    {AllInstruments(sections)[i].ticker : i \in 1..Len(AllInstruments(sections))}

-----------------------------------------------------------------------------
\* The batch yf.download returns: an index of dates and one "Close" column
\* per ticker it has data for.  The cells of a column are closes, NaN, or
\* (the whole column) objects that float() rejects.

NaN == [nan |-> TRUE]
Obj == [object |-> TRUE]
TransportError == [error |-> "TransportError"]

Closes == {FInt(-1), FInt(0), FInt(2)}

\* The i-th date of the trailing window.
DateOf(i) == IF i <= 2 THEN [day |-> 28 + i, month |-> 9]
                       ELSE [day |-> i - 2, month |-> 10]

Columns(n) == [1..n -> Closes \cup {NaN}] \cup {[i \in 1..n |-> Obj]}

Frames(tickers) ==
    UNION {[index : {[i \in 1..n |-> DateOf(i)]},
            close : UNION {[present -> Columns(n)] : present \in SUBSET tickers}]
           : n \in 0..MaxRows}

\* data["Close"][ticker] as a series of <<date, value>>, and its dropna().
SeriesOf(frame, ticker) ==
    [i \in 1..Len(frame.index) |-> <<frame.index[i], frame.close[ticker][i]>>]

dropna(series) == SelectSeq(series, LAMBDA e : e[2] # NaN)

-----------------------------------------------------------------------------
\* fetch_data

\* TryQuote with a fallback for a series of one point: prev = last.
TryQuoteOnePoint(ticker, frame) ==
    IF ticker \notin DOMAIN frame.close THEN [kind |-> "raise", exc |-> "KeyError"]
    ELSE LET closes == dropna(SeriesOf(frame, ticker))
             n      == Len(closes)
             m      == IF n >= 2 THEN n - 1 ELSE n
         IN  IF n < 1 THEN [kind |-> "continue"]
             ELSE IF closes[n][2] = Obj \/ closes[m][2] = Obj
             THEN [kind |-> "raise", exc |-> "TypeError"]
             ELSE [kind |-> "quote",
                   quote |-> MakeQuote(closes[n][2], closes[m][2], closes[n][1])]

\* The body of the try block for one instrument: a Quote, the continue of a
\* short series, or an exception.
TryQuote(ticker, frame) ==
    IF ticker \notin DOMAIN frame.close THEN [kind |-> "raise", exc |-> "KeyError"]
    ELSE LET closes == dropna(SeriesOf(frame, ticker))
             n      == Len(closes)
         IN  IF n < 2 THEN [kind |-> "continue"]
             ELSE IF closes[n][2] = Obj \/ closes[n - 1][2] = Obj
             THEN [kind |-> "raise", exc |-> "TypeError"]
             ELSE [kind |-> "quote",
                   quote |-> MakeQuote(closes[n][2], closes[n - 1][2], closes[n][1])]

\* The except clause without TypeError.
CaughtNarrow == {"KeyError", "IndexError"}

\* The exceptions of the except clause.
Caught == {"KeyError", "IndexError", "TypeError"}

\* The loop over the instruments; an exception the except clause does not
\* name ends it.
RECURSIVE FetchLoop(_, _, _)
FetchLoop(instruments, frame, acc) ==
    IF instruments = <<>> \/ acc.raised THEN acc
    ELSE LET ticker == Head(instruments).ticker
             o      == TryQuote(ticker, frame)
         IN  FetchLoop(Tail(instruments), frame,
                IF o.kind = "quote"
                THEN [acc EXCEPT !.results = (ticker :> o.quote) @@ @]
                ELSE IF o.kind = "raise" /\ o.exc \notin Caught
                THEN [acc EXCEPT !.raised = TRUE]
                ELSE acc)

fetch_data(sections, frame) ==
    FetchLoop(AllInstruments(sections), frame, [raised |-> FALSE, results |-> <<>>])

-----------------------------------------------------------------------------
\* build_tbody

RECURSIVE InstrumentLines(_, _)
InstrumentLines(instruments, res) ==
    IF instruments = <<>> THEN <<>>
    ELSE LET ins == Head(instruments)
         IN  IF ins.ticker \notin DOMAIN res
             THEN InstrumentLines(Tail(instruments), res)
             ELSE <<RowLine(ins.name, res[ins.ticker])>>
                  \o InstrumentLines(Tail(instruments), res)

\* SectionLines with no header for a section none of whose instruments has a
\* Quote.
RECURSIVE SectionLinesSkipEmpty(_, _)
SectionLinesSkipEmpty(sections, res) ==
    IF sections = <<>> THEN <<>>
    ELSE (IF InstrumentLines(Head(sections).instruments, res) = <<>> THEN <<>>
          ELSE <<CommentLine(Head(sections).title), HeaderLine(Head(sections).title)>>
               \o InstrumentLines(Head(sections).instruments, res))
         \o SectionLinesSkipEmpty(Tail(sections), res)

RECURSIVE SectionLines(_, _)
SectionLines(sections, res) ==
    IF sections = <<>> THEN <<>>
    ELSE <<CommentLine(Head(sections).title), HeaderLine(Head(sections).title)>>
         \o InstrumentLines(Head(sections).instruments, res)
         \o SectionLines(Tail(sections), res)

\* "\n".join(lines)
RECURSIVE Join(_)
Join(lines) ==
    IF lines = <<>> THEN <<>>
    ELSE IF Len(lines) = 1 THEN lines[1]
    ELSE lines[1] \o <<"\n">> \o Join(Tail(lines))

build_tbody(sections, res) == Join(SectionLines(sections, res))

-----------------------------------------------------------------------------
\* update_html

start_tag == <<"<", "t", "b", "o", "d", "y", ">">>
end_tag == <<"<", "/", "t", "b", "o", "d", "y", ">">>

\* str.index: the place of the first occurrence of sub, 0 for ValueError.
Index(content, sub) ==
    LET found == {i \in 1..(Len(content) - Len(sub) + 1) :
                     SubSeq(content, i, i + Len(sub) - 1) = sub}
    IN  IF found = {} THEN 0 ELSE CHOOSE i \in found : \A k \in found : i <= k

\* new_content with the tail taken after the end marker: content[j + len(end_tag):]
new_content_past_end(content, tbody_html) ==
    LET i == Index(content, start_tag) + Len(start_tag) - 1
        j == Index(content, end_tag)
    IN  SubSeq(content, 1, i) \o <<"\n">> \o tbody_html \o <<"\n            ">>
        \o SubSeq(content, j + Len(end_tag), Len(content))

\* content[:i] + "\n" + tbody_html + "\n            " + content[j:]
new_content(content, tbody_html) ==
    LET i == Index(content, start_tag) + Len(start_tag) - 1
        j == Index(content, end_tag)
    IN  SubSeq(content, 1, i) \o <<"\n">> \o tbody_html \o <<"\n            ">>
        \o SubSeq(content, j, Len(content))

\* The documents a run may find.
Docs ==
    { <<"a">> \o start_tag \o <<"x">> \o end_tag \o <<"b">>,
      start_tag \o end_tag,
      <<"<">> \o start_tag \o <<"\n", "x">> \o end_tag \o <<">">>,
      <<"a", "<", "t", "b">>,
      start_tag \o <<"x">>,
      <<"x">> \o end_tag,
      end_tag \o <<"x">> \o start_tag \o <<"y">>,
      start_tag \o <<"x">> \o end_tag \o <<"y">> \o end_tag }

-----------------------------------------------------------------------------
\* main, one run

Init ==
    /\ pc = "start"
    /\ catalog \in Catalogs
    /\ doc \in Docs
    /\ data = <<>> /\ results = <<>> /\ tbody = <<>>
    /\ args = <<>> /\ out = <<>>

\* results = fetch_data(): the download, which may fail as a whole, and the
\* loop over the instruments.
FetchData ==
    /\ pc = "start"
    /\ \E frame \in Frames(all_tickers(catalog)) \cup {TransportError} :
          /\ data' = frame
          /\ IF frame = TransportError
             THEN pc' = "fetch_raised" /\ results' = results
             ELSE LET r == fetch_data(catalog, frame)
                  IN  IF r.raised THEN pc' = "fetch_raised" /\ results' = results
                      ELSE pc' = "fetched" /\ results' = r.results
    /\ UNCHANGED <<catalog, doc, tbody, args, out>>

\* results is None: never true of the dict fetch_data returns.
NoResultsIsNone(res) == FALSE

\* not results
NoResults(res) == DOMAIN res = {}

\* if not results: print(...); return
ReturnUnchanged ==
    /\ pc = "fetched"
    /\ NoResults(results)
    /\ pc' = "returned"
    /\ UNCHANGED <<catalog, doc, data, results, tbody, args, out>>

\* tbody = build_tbody(results)
BuildTbody ==
    /\ pc = "fetched"
    /\ ~NoResults(results)
    /\ tbody' = build_tbody(catalog, results)
    /\ pc' = "built"
    /\ UNCHANGED <<catalog, doc, data, results, args, out>>

\* update_html with str.find for str.index: a missing marker gives -1, no
\* exception, and the slices content[:6] and content[-1:] are written.
UpdateHtmlFind ==
    /\ pc = "built"
    /\ LET i == IF Index(doc, start_tag) = 0 THEN Len(start_tag) - 1
                ELSE Index(doc, start_tag) + Len(start_tag) - 1
           j == IF Index(doc, end_tag) = 0 THEN Len(doc) ELSE Index(doc, end_tag)
       IN  doc' = SubSeq(doc, 1, IF i < Len(doc) THEN i ELSE Len(doc)) \o <<"\n">> \o tbody
                  \o <<"\n            ">> \o SubSeq(doc, j, Len(doc))
    /\ pc' = "done"
    /\ UNCHANGED <<catalog, data, results, tbody, args, out>>

\* update_html(tbody): a missing marker raises ValueError before the write.
UpdateHtml ==
    /\ pc = "built"
    /\ IF Index(doc, start_tag) = 0 \/ Index(doc, end_tag) = 0
       THEN pc' = "update_raised" /\ doc' = doc
       ELSE pc' = "done" /\ doc' = new_content(doc, tbody)
    /\ UNCHANGED <<catalog, data, results, tbody, args, out>>

Next == FetchData \/ ReturnUnchanged \/ BuildTbody \/ UpdateHtml

Spec == Init /\ [][Next]_vars

-----------------------------------------------------------------------------
\* The script run again and again on the document the last run left.

RerunCatalogs ==
    { <<Section("Currencies &amp; Commodities", <<UsdJpy>>)>>,
      <<Section("Currencies &amp; Commodities", <<Dax>>),
        Section("Global Market Indices", <<Dax>>)>> }

RerunDocs ==
    { <<"a">> \o start_tag \o <<"x">> \o end_tag \o <<"b">>,
      <<"<">> \o start_tag \o <<"\n", "x">> \o end_tag \o <<">">>,
      <<"x">> \o end_tag }

InitRerun ==
    /\ pc = "start"
    /\ catalog \in RerunCatalogs
    /\ doc \in RerunDocs
    /\ data = <<>> /\ results = <<>> /\ tbody = <<>>
    /\ args = <<>> /\ out = <<>>

\* The next invocation of the script: main starts over, index.html is as the
\* last run left it.
Rerun ==
    /\ pc \in {"fetch_raised", "returned", "update_raised", "done"}
    /\ pc' = "start"
    /\ data' = <<>> /\ results' = <<>> /\ tbody' = <<>>
    /\ UNCHANGED <<catalog, doc, args, out>>

NextRerun == FetchData \/ ReturnUnchanged \/ BuildTbody \/ UpdateHtml \/ Rerun

SpecRerun == InitRerun /\ [][NextRerun]_vars

-----------------------------------------------------------------------------
\* The formatting functions applied to the values of a Quote: the closes a
\* Quote is made of are drawn from Lasts and Prevs.

Lasts == {FInt(-2), FInt(-1), FInt(0), FBin(1, 8), FBin(1, 1), FBin(255, 8),
          FInt(1), FInt(2), FBin(2559, 8), FInt(10), FBin(2565, 8), FInt(16),
          FBin(255999, 8), FInt(1024), FBin(2469, 1)}

Prevs == {FInt(-2), FInt(-1), FInt(0), FBin(1, 1), FInt(1), FInt(2), FInt(16),
          FInt(1024)}

ClosePairs == {p \in [last : Lasts, prev : Prevs] : ExactDiv(FSub(p.last, p.prev), p.prev)}

ArgsQuote == MakeQuote(args.last, args.prev, [day |-> 2, month |-> 11])

InitFmt ==
    /\ pc = "ready"
    /\ args \in ClosePairs
    /\ out = <<>>
    /\ catalog = <<>> /\ doc = <<>> /\ data = <<>> /\ results = <<>> /\ tbody = <<>>

FmtPrice ==
    /\ pc = "ready"
    /\ out' = fmt_price(ArgsQuote.last)
    /\ pc' = "fmt_price"
    /\ UNCHANGED <<catalog, doc, data, results, tbody, args>>

FmtChangeAbs ==
    /\ pc = "ready"
    /\ out' = fmt_change(ArgsQuote.chg, ArgsQuote.last)
    /\ pc' = "fmt_change_abs"
    /\ UNCHANGED <<catalog, doc, data, results, tbody, args>>

FmtChangePct ==
    /\ pc = "ready"
    /\ out' = fmt_change(ArgsQuote.chg_pct, FInt(100))
    /\ pc' = "fmt_change_pct"
    /\ UNCHANGED <<catalog, doc, data, results, tbody, args>>

RenderRow ==
    /\ pc = "ready"
    /\ out' = RowLine("N", ArgsQuote)
    /\ pc' = "row"
    /\ UNCHANGED <<catalog, doc, data, results, tbody, args>>

NextFmt == FmtPrice \/ FmtChangeAbs \/ FmtChangePct \/ RenderRow

SpecFmt == InitFmt /\ [][NextFmt]_vars

-----------------------------------------------------------------------------
\* Shapes of formatted numbers

\* s without its leading "-", if any.
Unsigned(s) == IF Len(s) > 0 /\ s[1] = "-" THEN Tail(s) ELSE s

\* u is an integer part, a point and exactly d digits.
HasDecimals(u, d) ==
    /\ Len(u) >= d + 2
    /\ u[Len(u) - d] = "."
    /\ \A i \in 1..Len(u) : i # Len(u) - d => u[i] # "."
    /\ \A i \in (Len(u) - d + 1)..Len(u) : IsDigit(u[i])

IntPart(u, d) == SubSeq(u, 1, Len(u) - d - 1)

\* Digits in groups of three from the right, a "," between the groups.
IsGrouped(ip) ==
    /\ IsDigit(ip[1])
    /\ \A k \in 1..Len(ip) :
          IF (Len(ip) - k + 1) % 4 = 0 THEN ip[k] = "," ELSE IsDigit(ip[k])

IsPlain(ip) == \A k \in 1..Len(ip) : IsDigit(ip[k])

\* C7: fmt_price(v) has exactly 2 decimals and thousands separators when
\* |v| >= 10, exactly 3 decimals when 1 <= |v| < 10 and exactly 4 decimals
\* when |v| < 1; 10 and 1 themselves are in the 2- and the 3-decimal tier.
FmtPriceTiers ==
    pc = "fmt_price" =>
        LET v == args.last
            u == Unsigned(out)
        IN  IF v.mag >= 10 * Unit
            THEN HasDecimals(u, 2) /\ IsGrouped(IntPart(u, 2))
            ELSE IF v.mag >= Unit
            THEN HasDecimals(u, 3) /\ IsPlain(IntPart(u, 3))
            ELSE HasDecimals(u, 4) /\ IsPlain(IntPart(u, 4))

\* fmt_price has formatted a price on a tier boundary, and one that the
\* rounding carries into a fourth integer digit.
FmtPriceTiersWitness ==
    /\ pc = "fmt_price"
    /\ args.last \in {FInt(10), FInt(1), FBin(255999, 8)}

\* The value and the reference of the fmt_change call made.
ChangeVal == IF pc = "fmt_change_abs" THEN ArgsQuote.chg ELSE ArgsQuote.chg_pct

\* C8: fmt_change(val, ref) starts with exactly one sign character: "+" when
\* val is non-negative, a single "-" when val is negative.
FmtChangeOneSign ==
    pc \in {"fmt_change_abs", "fmt_change_pct"} =>
        /\ Len(out) >= 2
        /\ out[1] = (IF FGe0(ChangeVal) THEN "+" ELSE "-")
        /\ IsDigit(out[2])

\* The places of the two change cells in a row.
ClassCells(row) == {k \in 1..Len(row) : row[k] = "<td class=\""}

\* C10: in a rendered row the class is "chg-pos" exactly when both change
\* cells start with "+", and "chg-neg" exactly when both start with "-".
RowClassMatchesSigns ==
    pc = "row" =>
        /\ Cardinality(ClassCells(out)) = 2
        /\ \A k \in ClassCells(out) :
              \/ out[k + 1] = "chg-pos" /\ out[k + 3] = "+"
              \/ out[k + 1] = "chg-neg" /\ out[k + 3] = "-"

-----------------------------------------------------------------------------
\* Reading the rendered block and the document

\* text.split("\n")
RECURSIVE SplitLines(_)
SplitLines(text) ==
    LET k == Index(text, <<"\n">>)
    IN  IF k = 0 THEN <<text>>
        ELSE <<SubSeq(text, 1, k - 1)>> \o SplitLines(SubSeq(text, k + 1, Len(text)))

IsRow(line) == Len(line) >= 4 /\ line[2] = "<tr>"

IsHeader(line) == Len(line) >= 4 /\ line[2] = "<tr class=\"section-header\">"

\* The <tr> lines of a block, in order, and what each carries in its first cell.
TableRows(text) == SelectSeq(SplitLines(text), LAMBDA l : IsRow(l) \/ IsHeader(l))

RowNames(text) == {TableRows(text)[i][4] : i \in {k \in 1..Len(TableRows(text)) : IsRow(TableRows(text)[k])}}

\* The places where tag occurs in content.
Occurrences(content, tag) ==
    {i \in 1..Len(content) : i + Len(tag) - 1 <= Len(content)
                             /\ SubSeq(content, i, i + Len(tag) - 1) = tag}

TheOccurrence(content, tag) == CHOOSE i \in Occurrences(content, tag) : TRUE

OnceEach(content) ==
    /\ Cardinality(Occurrences(content, start_tag)) = 1
    /\ Cardinality(Occurrences(content, end_tag)) = 1

\* One start marker followed by one end marker.
WellFormed(content) ==
    /\ OnceEach(content)
    /\ TheOccurrence(content, start_tag) < TheOccurrence(content, end_tag)

\* The text through the start marker, from the end marker on, and between.
ThroughStart(content) ==
    SubSeq(content, 1, TheOccurrence(content, start_tag) + Len(start_tag) - 1)

FromEnd(content) == SubSeq(content, TheOccurrence(content, end_tag), Len(content))

Between(content) ==
    SubSeq(content, TheOccurrence(content, start_tag) + Len(start_tag),
           TheOccurrence(content, end_tag) - 1)

\* The rendered block as update_html lays it between the markers.
Block(tbody_html) == <<"\n">> \o tbody_html \o <<"\n            ">>

AfterFetch == pc \in {"fetched", "returned", "built", "update_raised", "done"}

AfterBuild == pc \in {"built", "update_raised", "done"}

\* The non-missing observations of a column the batch holds.
Observations(frame, ticker) ==
    {i \in 1..Len(frame.index) : frame.close[ticker][i] # NaN}

FewObservations(frame, ticker) ==
    /\ ticker \in DOMAIN frame.close
    /\ Cardinality(Observations(frame, ticker)) < 2

-----------------------------------------------------------------------------
\* Claims about one run

\* C1: an instrument whose closing-price series has fewer than 2 non-missing
\* observations gets no Quote from fetch_data and no row in the block that
\* build_tbody renders.
ShortSeriesOmitted ==
    AfterFetch =>
        \A i \in 1..Len(AllInstruments(catalog)) :
            LET ins == AllInstruments(catalog)[i]
            IN  FewObservations(data, ins.ticker) =>
                    /\ ins.ticker \notin DOMAIN results
                    /\ ins.name \notin RowNames(tbody)

\* A block has been rendered with a row for one instrument and none for
\* another whose series is short.
ShortSeriesOmittedWitness ==
    /\ pc = "built"
    /\ RowNames(tbody) # {}
    /\ \E t \in all_tickers(catalog) : FewObservations(data, t)

\* A symbol fetch_data cannot make a Quote of: no column, a short series, or
\* values that are no numbers.
BadSymbol(frame, ticker) ==
    \/ ticker \notin DOMAIN frame.close
    \/ FewObservations(frame, ticker)
    \/ \E i \in 1..Len(frame.index) : frame.close[ticker][i] = Obj

\* The catalog without the instruments of a ticker.
Without(sections, ticker) ==
    [k \in 1..Len(sections) |->
        [sections[k] EXCEPT !.instruments = SelectSeq(@, LAMBDA ins : ins.ticker # ticker)]]

\* C2: a lookup error for one symbol is caught for that symbol only: the
\* symbol is left out of the results, the other symbols get the Quotes they
\* would get without it in the catalog, and fetch_data raises only when the
\* download as a whole fails.
BadSymbolOnlySkipped ==
    /\ pc = "fetch_raised" => data = TransportError
    /\ AfterFetch =>
          /\ DOMAIN results = {t \in all_tickers(catalog) : ~BadSymbol(data, t)}
          /\ \A t \in all_tickers(catalog) :
                BadSymbol(data, t) => results = fetch_data(Without(catalog, t), data).results

\* fetch_data has returned a Quote for one symbol after the lookup for
\* another raised.
BadSymbolOnlySkippedWitness ==
    /\ pc = "fetched"
    /\ results # <<>>
    /\ \E t \in all_tickers(catalog) :
          t \notin DOMAIN data.close \/ \E i \in 1..Len(data.index) : data.close[t][i] = Obj

\* C3: with no results main returns without calling update_html, and the
\* document stays as it was, markers or not.
EmptyResultsLeaveDocument ==
    /\ [][(pc = "fetched" /\ DOMAIN results = {}) => (pc' = "returned" /\ doc' = doc)]_vars
    /\ [][pc = "returned" => doc' = doc]_vars
    /\ [](AfterBuild => DOMAIN results # {})

\* main has returned early on a document without the start marker.
EmptyResultsLeaveDocumentWitness ==
    /\ pc = "returned"
    /\ Occurrences(doc, start_tag) = {}

\* C4: with a marker missing update_html raises and writes nothing.
MissingMarkerRaises ==
    [][(pc = "built" /\ (Occurrences(doc, start_tag) = {} \/ Occurrences(doc, end_tag) = {}))
         => (pc' = "update_raised" /\ doc' = doc)]_vars

\* update_html has raised on a document that has the end marker only.
MissingMarkerRaisesWitness ==
    /\ pc = "update_raised"
    /\ Occurrences(doc, start_tag) = {}
    /\ Occurrences(doc, end_tag) # {}

\* C5: on a document with each marker exactly once update_html replaces the
\* text between the markers, and only it, by the rendered block.
PatchReplacesBetween ==
    [][(pc = "built" /\ OnceEach(doc))
         => /\ doc = ThroughStart(doc) \o Between(doc) \o FromEnd(doc)
            /\ doc' = ThroughStart(doc) \o Block(tbody) \o FromEnd(doc)]_vars

\* The place of the k-th header among the <tr> lines, and the rows that
\* follow it up to the next header.
HeaderPlace(rows, k) ==
    CHOOSE p \in 1..Len(rows) :
        IsHeader(rows[p]) /\ Cardinality({q \in 1..p : IsHeader(rows[q])}) = k

SectionRows(rows, k, n) ==
    SubSeq(rows, HeaderPlace(rows, k) + 1,
           IF k < n THEN HeaderPlace(rows, k + 1) - 1 ELSE Len(rows))

Quoted(section, res) == SelectSeq(section.instruments, LAMBDA ins : ins.ticker \in DOMAIN res)

\* C9: the block holds, section by section in catalog order, the header row
\* of the section and then one row for each of its instruments that has a
\* Quote, in catalog order, and no other row.
RowsFollowCatalog ==
    AfterBuild =>
        LET rows == TableRows(tbody)
            n    == Len(catalog)
        IN  /\ Cardinality({p \in 1..Len(rows) : IsHeader(rows[p])}) = n
            /\ Len(rows) > 0 => IsHeader(rows[1])
            /\ \A k \in 1..n :
                  /\ rows[HeaderPlace(rows, k)][4] = catalog[k].title
                  /\ LET sr == SectionRows(rows, k, n)
                         qi == Quoted(catalog[k], results)
                     IN  /\ Len(sr) = Len(qi)
                         /\ \A i \in 1..Len(qi) : sr[i][4] = qi[i].name

\* A block with two sections: one with two rows, one with its header only.
RowsFollowCatalogWitness ==
    /\ pc = "built"
    /\ Len(catalog) = 2
    /\ \E k \in 1..2 : Len(Quoted(catalog[k], results)) = 2
    /\ \E k \in 1..2 : Len(Quoted(catalog[k], results)) = 0

-----------------------------------------------------------------------------
\* Claims about runs on the document of the last run

\* C6: a document with one start marker followed by one end marker keeps
\* exactly that through every run, and a run with the quotes of the last run
\* leaves the document as the last run left it.
RerunKeepsStructure ==
    /\ [][WellFormed(doc) => WellFormed(doc')]_vars
    /\ [][(pc = "built" /\ WellFormed(doc) /\ Between(doc) = Block(tbody)) => doc' = doc]_vars

\* A run is about to write the block the last run wrote.
RerunKeepsStructureWitness ==
    /\ pc = "built"
    /\ WellFormed(doc)
    /\ Between(doc) = Block(tbody)

====
